---- MODULE Spec2Model ----
(***************************************************************************)
(* The Streamlit dashboard of reddit_dashboard_enhanced.py as a state      *)
(* machine: the process-wide connection memo (st.cache_resource), the      *)
(* single-slot data cache (st.cache_data, ttl=300), the session state, and *)
(* one run of the script split at the places where it can stop: the        *)
(* refresh button, the sidebar status probe, load_data, the empty-dataset  *)
(* guard, the executive summary and the data explorer.                     *)
(*                                                                         *)
(* Values of the upstream documents are written as strings (the notation   *)
(* of the value in the document); conversions map them with tables.        *)
(***************************************************************************)
EXTENDS Integers, Sequences, FiniteSets, TLC

VARIABLES
    clock,                \* wall clock, seconds
    mongo_cache,          \* st.cache_resource slot of get_mongo_client: 0 or a client id
    clients_created,      \* MongoClient objects constructed so far
    ping_ok,              \* clients whose admin ping succeeded
    data_cache,           \* st.cache_data slot of load_data
    invalidated,          \* the slot was cleared since it was last filled
    refresh_count,        \* st.session_state.refresh_count
    last_manual_refresh,  \* st.session_state.last_manual_refresh
    pc,                   \* position of the script run
    button,               \* value st.button returns in this run
    conn,                 \* latest get_mongo_client call of this run
    call,                 \* latest load_data call of this run
    df,                   \* script global df
    load_time,            \* script global load_time
    kpi,                  \* KPI row of the executive summary
    bars,                 \* display_sentiment_bars percentages
    view                  \* data explorer: widget values, filtered_df, breakdown

vars == <<clock, mongo_cache, clients_created, ping_ok, data_cache, invalidated,
          refresh_count,
          last_manual_refresh, pc, button, conn, call, df, load_time, kpi,
          bars, view>>

(***************************************************************************)
(* Bounds of the model.                                                    *)
(***************************************************************************)
\* rows the two queries return together (the code's cap is 3000 per query)
MaxRows == 2
\* clock ticks of half a freshness window each
MaxTicks == 2
\* MongoClient constructions
MaxClients == 2
\* presses of "Refresh Data Now"
MaxRefresh == 1

(***************************************************************************)
(* Program constants.                                                      *)
(***************************************************************************)
\* @st.cache_data(ttl=300)
TTL == 300

None == "None"
\* a key the document does not have: NaN in the frame
Absent == "<absent>"
NaT == "NaT"

Quantum == TTL \div 2

(***************************************************************************)
(* Upstream documents.  The store is schema-less; these five documents     *)
(* stand for the shapes a document can take with respect to the columns    *)
(* load_data touches.                                                      *)
(***************************************************************************)
WellFormed == [timestamp |-> "2024-05-01T10:00:00", subreddit |-> "python",
               transformer_label |-> "POSITIVE", vader_score |-> "0.5",
               body |-> "text"]
\* only the time and the score: label and subreddit keys are missing
Sparse == [timestamp |-> "2024-05-01T10:00:00", subreddit |-> Absent,
           transformer_label |-> Absent, vader_score |-> "-0.3",
           body |-> Absent]
\* strings the pipeline does not expect
Dirty == [timestamp |-> "2024-05-01T10:00:00", subreddit |-> "",
          transformer_label |-> "mixed", vader_score |-> "n/a",
          body |-> "text"]
\* a timestamp that does not parse
BadTime == [timestamp |-> "garbage", subreddit |-> "java",
            transformer_label |-> "negative", vader_score |-> "0.5",
            body |-> "text"]
\* no timestamp key at all
NoTime == [timestamp |-> Absent, subreddit |-> "java",
           transformer_label |-> "negative", vader_score |-> "0.5",
           body |-> "text"]

Docs == {WellFormed, Sparse, Dirty, BadTime, NoTime}

Batches == UNION {[1..k -> Docs] : k \in 0..MaxRows}

\* what the posts query and the comments query can return together
Fetches == {f \in Batches \X Batches : Len(f[1]) + Len(f[2]) <= MaxRows}

(***************************************************************************)
(* Conversions of load_data.                                               *)
(***************************************************************************)
\* pd.to_datetime(..., errors='coerce', utc=True)
to_datetime(v) ==
    IF v = "2024-05-01T10:00:00" THEN "2024-05-01 10:00:00+00:00" ELSE NaT

\* pd.to_numeric(..., errors='coerce').fillna(0.0), in hundredths
to_numeric_fillna(v) ==
    CASE v = "0.5" -> 50
      [] v = "-0.3" -> 0 - 30
      [] OTHER -> 0

\* str.lower()
lower(s) ==
    CASE s = "POSITIVE" -> "positive"
      [] OTHER -> s

\* str.title()
title(s) ==
    CASE s = "positive" -> "Positive"
      [] s = "negative" -> "Negative"
      [] s = "neutral" -> "Neutral"
      [] s = "mixed" -> "Mixed"
      [] OTHER -> s

fillna(v, default) == IF v = Absent THEN default ELSE v

\* datetime.now().strftime(...)
strftime(t) == ToString(t)

(***************************************************************************)
(* The frame: a sequence of rows, each with its index label.               *)
(***************************************************************************)
RawRow(d, kind, i) ==
    [index |-> i, type |-> kind, timestamp |-> d.timestamp,
     subreddit |-> d.subreddit, transformer_label |-> d.transformer_label,
     vader_score |-> d.vader_score]

\* pd.concat([df_posts, df_comments], ignore_index=True)
concat(posts, comments) ==
    [i \in 1..(Len(posts) + Len(comments)) |->
        IF i <= Len(posts)
        THEN RawRow(posts[i], "Post", i - 1)
        ELSE RawRow(comments[i - Len(posts)], "Comment", i - 1)]

\* a column exists when some document has the key
HasColumn(frame, col) == \E i \in 1..Len(frame) : frame[i][col] # Absent

HasBody(comments) == \E i \in 1..Len(comments) : comments[i].body # Absent

Normalize(r, has_ts) ==
    [index |-> r.index, type |-> r.type,
     timestamp |-> IF has_ts THEN to_datetime(r.timestamp) ELSE r.timestamp,
     vader_score |-> to_numeric_fillna(r.vader_score),
     transformer_label |-> lower(fillna(r.transformer_label, "neutral")),
     subreddit |-> fillna(r.subreddit, "unknown")]

HasValidTime(r) == r.timestamp # NaT

\* df.dropna(subset=['timestamp'])
dropna(frame) == SelectSeq(frame, HasValidTime)

\* the early return is lost
BothEmpty_Never(posts, comments) == FALSE

\* line 142: df_posts.empty and df_comments.empty
BothEmpty(posts, comments) == posts = <<>> /\ comments = <<>>

Raise(e) == [kind |-> "raise", df |-> <<>>, load_time |-> None, error |-> e]
Return(d, t) == [kind |-> "return", df |-> d, load_time |-> t, error |-> None]

\* the body of load_data once both queries have returned
load_data_body(posts, comments, now) ==
    LET frame == concat(posts, comments)
        has_ts == HasColumn(frame, "timestamp")
        typed == [i \in 1..Len(frame) |-> Normalize(frame[i], has_ts)]
    IN  IF comments # <<>> /\ ~HasBody(comments)
            THEN Raise("AttributeError: body")
        ELSE IF BothEmpty(posts, comments)
            THEN Return(<<>>, None)
        ELSE IF ~HasColumn(frame, "vader_score")
            THEN Raise("KeyError: vader_score")
        ELSE IF ~HasColumn(frame, "transformer_label")
            THEN Raise("KeyError: transformer_label")
        ELSE IF ~HasColumn(frame, "subreddit")
            THEN Raise("KeyError: subreddit")
        ELSE IF ~has_ts
            THEN Raise("KeyError: timestamp")
        ELSE Return(dropna(typed), strftime(now))

(***************************************************************************)
(* Connection manager.                                                     *)
(***************************************************************************)
ConnOutcomes == {"ok", "connect_error", "ping_error"}

\* the client is handed out and memoized although its ping failed
get_mongo_client_NoPing(memo, created, pinged, outcome) ==
    IF memo # 0
        THEN [kind |-> "return", client |-> memo, memo |-> memo,
              created |-> created, pinged |-> pinged]
    ELSE IF outcome = "connect_error"
        THEN [kind |-> "raise", client |-> 0, memo |-> 0,
              created |-> created, pinged |-> pinged]
    ELSE [kind |-> "return", client |-> created + 1, memo |-> created + 1,
          created |-> created + 1,
          pinged |-> IF outcome = "ok" THEN pinged \cup {created + 1} ELSE pinged]

\* get_mongo_client under @st.cache_resource: the memoized client if there is
\* one; otherwise construct, ping, and memoize only a returned client.
get_mongo_client(memo, created, pinged, outcome) ==
    IF memo # 0
        THEN [kind |-> "return", client |-> memo, memo |-> memo,
              created |-> created, pinged |-> pinged]
    ELSE IF outcome = "connect_error"
        THEN [kind |-> "raise", client |-> 0, memo |-> 0,
              created |-> created, pinged |-> pinged]
    ELSE IF outcome = "ping_error"
        THEN [kind |-> "raise", client |-> 0, memo |-> 0,
              created |-> created + 1, pinged |-> pinged]
    ELSE [kind |-> "return", client |-> created + 1, memo |-> created + 1,
          created |-> created + 1, pinged |-> pinged \cup {created + 1}]

\* the outcomes the environment can produce for one call
Possible(outcome) ==
    IF mongo_cache # 0 THEN outcome = "ok"
    ELSE outcome = "connect_error" \/ clients_created < MaxClients

NoConn == [kind |-> "none", client |-> 0]
ConnOf(g) == [kind |-> g.kind, client |-> g.client]

(***************************************************************************)
(* Data cache: @st.cache_data(ttl=300).                                    *)
(***************************************************************************)
Empty == [full |-> FALSE, df |-> <<>>, load_time |-> None, stored_at |-> 0]

\* the ttl is ignored
Fresh_Forever(slot, now) == slot.full

\* an entry is served while its age is below the ttl
Fresh(slot, now) == slot.full /\ now - slot.stored_at < TTL

\* the value of an entry whose ttl has run out can no longer be read: the slot
\* keeps the entry's time and lets go of the value
Expire(slot, now) ==
    IF slot.full /\ ~Fresh(slot, now)
    THEN [slot EXCEPT !.df = <<>>, !.load_time = None]
    ELSE slot

\* a raised call is stored as well
Store_Always(r, now) ==
    [full |-> TRUE, df |-> r.df, load_time |-> r.load_time, stored_at |-> now]

\* only a returned value is stored; an expired entry is dropped at the lookup
Store(r, now) ==
    IF r.kind = "return"
    THEN [full |-> TRUE, df |-> r.df, load_time |-> r.load_time, stored_at |-> now]
    ELSE Empty

\* a load_data call: the slot as the call found it (had, age, invalidated),
\* whether the body ran, the queries it issued and on which client, what they
\* returned, and how the call ended
NoCall == [kind |-> "none", had |-> FALSE, age |-> 0, invalidated |-> FALSE,
           ran |-> FALSE, queries |-> 0, client |-> 0,
           posts |-> <<>>, comments |-> <<>>, error |-> None]

Found(slot, now, inv) ==
    [NoCall EXCEPT !.had = slot.full,
                   !.age = IF slot.full THEN now - slot.stored_at ELSE 0,
                   !.invalidated = inv]

NoKpi == [shown |-> FALSE, total_docs |-> 0, avg_vader |-> <<0, 0>>,
          active_subs |-> 0, dominant_sent |-> None]
NoBars == [shown |-> FALSE, total |-> 0, positive |-> 0, neutral |-> 0, negative |-> 0]
NoView == [shown |-> FALSE, all_options |-> {}, selected_subs |-> {},
           selected_types |-> {}, sentiments_to_show |-> <<>>,
           filtered_df |-> <<>>, charted |-> FALSE, breakdown |-> {},
           feed |-> <<>>]

Init ==
    /\ clock = 0
    /\ mongo_cache = 0
    /\ clients_created = 0
    /\ ping_ok = {}
    /\ data_cache = Empty
    /\ invalidated = FALSE
    /\ refresh_count = 0
    /\ last_manual_refresh = None
    /\ pc = "idle"
    /\ button = FALSE
    /\ conn = NoConn
    /\ call = NoCall
    /\ df = <<>>
    /\ load_time = None
    /\ kpi = NoKpi
    /\ bars = NoBars
    /\ view = NoView

\* time passes between two runs of the script
Tick ==
    /\ pc = "idle"
    /\ clock < MaxTicks * Quantum
    /\ clock' = clock + Quantum
    /\ data_cache' = Expire(data_cache, clock')
    /\ UNCHANGED <<mongo_cache, clients_created, ping_ok, invalidated, refresh_count,
                   last_manual_refresh, pc, button, conn, call,
                   df, load_time, kpi, bars, view>>

\* an interaction or the auto-refresh timer reruns the script from the top;
\* pressed is whether the interaction was a click on "Refresh Data Now"
RunStart(pressed) ==
    /\ pc = "idle"
    /\ pressed => refresh_count < MaxRefresh
    /\ pc' = "controls"
    /\ button' = pressed
    /\ UNCHANGED <<clock, mongo_cache, clients_created, ping_ok, data_cache, invalidated,
                   refresh_count, last_manual_refresh, conn, call,
                   df, load_time, kpi, bars, view>>

\* st.cache_data.clear()
clear(slot) == Empty

\* lines 178-182: the button branch, ending in st.rerun()
ManualRefresh ==
    /\ pc = "controls"
    /\ button
    /\ data_cache' = clear(data_cache)
    /\ invalidated' = TRUE
    /\ refresh_count' = refresh_count + 1
    /\ last_manual_refresh' = strftime(clock)
    /\ button' = FALSE
    /\ pc' = "controls"
    /\ UNCHANGED <<clock, mongo_cache, clients_created, ping_ok,
                   conn, call, df, load_time, kpi, bars, view>>

\* lines 205-211: the sidebar's connection status, every exception caught;
\* whether server_info() then succeeds changes only the message shown
SidebarStatus ==
    /\ pc = "controls"
    /\ ~button
    /\ \E outcome \in ConnOutcomes :
          /\ Possible(outcome)
          /\ LET g == get_mongo_client(mongo_cache, clients_created, ping_ok, outcome)
             IN  /\ mongo_cache' = g.memo
                 /\ clients_created' = g.created
                 /\ ping_ok' = g.pinged
                 /\ conn' = ConnOf(g)
    /\ pc' = "load"
    /\ UNCHANGED <<clock, data_cache, invalidated, refresh_count, last_manual_refresh, button,
                   call, df, load_time, kpi, bars, view>>

\* what a run of load_data's body leaves behind
Loaded(r, queries, client, posts, comments) ==
    /\ data_cache' = Store(r, clock)
    /\ invalidated' = IF r.kind = "return" THEN FALSE ELSE invalidated
    /\ call' = [Found(data_cache, clock, invalidated) EXCEPT
                    !.kind = r.kind, !.ran = TRUE, !.queries = queries,
                    !.client = client, !.posts = posts, !.comments = comments,
                    !.error = r.error]
    /\ IF r.kind = "return"
       THEN df' = r.df /\ load_time' = r.load_time /\ pc' = "guard"
       ELSE UNCHANGED <<df, load_time>> /\ pc' = "failed"

\* line 222: df, load_time = load_data(), through the ttl cache
LoadData ==
    /\ pc = "load"
    /\ IF Fresh(data_cache, clock)
       THEN /\ df' = data_cache.df
            /\ load_time' = data_cache.load_time
            /\ call' = [Found(data_cache, clock, invalidated) EXCEPT
                            !.kind = "return"]
            /\ pc' = "guard"
            /\ UNCHANGED <<data_cache, invalidated, mongo_cache, clients_created,
                           ping_ok, conn>>
       ELSE \E outcome \in ConnOutcomes :
            /\ Possible(outcome)
            /\ LET g == get_mongo_client(mongo_cache, clients_created, ping_ok, outcome)
               IN  /\ mongo_cache' = g.memo
                   /\ clients_created' = g.created
                   /\ ping_ok' = g.pinged
                   /\ conn' = ConnOf(g)
                   /\ IF g.kind = "raise"
                      THEN Loaded(Raise("ConnectionError"), 0, 0, <<>>, <<>>)
                      ELSE \/ Loaded(Raise("posts query failed"), 1,
                                     g.client, <<>>, <<>>)
                           \/ \E p \in Batches :
                                 Loaded(Raise("comments query failed"), 2,
                                        g.client, p, <<>>)
                           \/ \E f \in Fetches :
                                 Loaded(load_data_body(f[1], f[2], clock), 2,
                                        g.client, f[1], f[2])
    /\ UNCHANGED <<clock, refresh_count, last_manual_refresh, button, kpi, bars, view>>

\* df.empty
empty(frame) == Len(frame) = 0

\* the guard is lost: the run goes on to the summary
EmptyGuard_NoStop ==
    /\ pc = "guard"
    /\ pc' = "summary"
    /\ UNCHANGED <<clock, mongo_cache, clients_created, ping_ok, data_cache, invalidated,
                   refresh_count, last_manual_refresh, button,
                   conn, call, df, load_time, kpi, bars, view>>

\* lines 224-226: warning and st.stop() on an empty frame
EmptyGuard ==
    /\ pc = "guard"
    /\ pc' = IF empty(df) THEN "stopped" ELSE "summary"
    /\ UNCHANGED <<clock, mongo_cache, clients_created, ping_ok, data_cache, invalidated,
                   refresh_count, last_manual_refresh, button,
                   conn, call, df, load_time, kpi, bars, view>>

Column(frame, col) == {frame[i][col] : i \in 1..Len(frame)}

\* Series.value_counts().get(v, 0)
count(frame, col, v) == Cardinality({i \in 1..Len(frame) : frame[i][col] = v})

RECURSIVE sum(_, _)
sum(frame, col) ==
    IF frame = <<>> THEN 0 ELSE Head(frame)[col] + sum(Tail(frame), col)

\* the labels in sorted order, as Series.mode() returns its ties
LabelOrder == <<"mixed", "negative", "neutral", "positive">>

\* Series.mode()[0]
mode0(frame) ==
    LET top(v) == \A w \in Column(frame, "transformer_label") :
                      count(frame, "transformer_label", w)
                          <= count(frame, "transformer_label", v)
        modes == {i \in 1..Len(LabelOrder) :
                      /\ LabelOrder[i] \in Column(frame, "transformer_label")
                      /\ top(LabelOrder[i])}
    IN  IF modes = {} THEN "IndexError"
        ELSE LabelOrder[CHOOSE i \in modes : \A j \in modes : i <= j]

\* lines 242-245
kpis(frame) ==
    [shown |-> TRUE,
     total_docs |-> Len(frame),
     avg_vader |-> <<sum(frame, "vader_score"), Len(frame)>>,
     active_subs |-> Cardinality(Column(frame, "subreddit")),
     dominant_sent |-> title(mode0(frame))]

\* lines 257-269: the three percentages, each as count * 100 over total
display_sentiment_bars(frame) ==
    IF empty(frame) THEN NoBars
    ELSE [shown |-> TRUE, total |-> Len(frame),
          positive |-> count(frame, "transformer_label", "positive") * 100,
          neutral |-> count(frame, "transformer_label", "neutral") * 100,
          negative |-> count(frame, "transformer_label", "negative") * 100]

\* lines 241-297: KPI row and sentiment bars over the global frame
ExecutiveSummary ==
    /\ pc = "summary"
    /\ kpi' = kpis(df)
    /\ bars' = display_sentiment_bars(df)
    /\ pc' = "explorer"
    /\ UNCHANGED <<clock, mongo_cache, clients_created, ping_ok, data_cache, invalidated,
                   refresh_count, last_manual_refresh, button,
                   conn, call, df, load_time, view>>

\* Series.isin(values)
isin(v, values) == \E i \in 1..Len(values) : values[i] = v

\* lines 356-359
build_sentiments(chk_pos, chk_neu, chk_neg) ==
    (IF chk_pos THEN <<"positive">> ELSE <<>>)
        \o (IF chk_neu THEN <<"neutral">> ELSE <<>>)
        \o (IF chk_neg THEN <<"negative">> ELSE <<>>)

\* the content-type mask is lost
apply_filters_NoType(frame, subs, types, labels) ==
    LET keep(r) == /\ r.subreddit \in subs
                   /\ isin(r.transformer_label, labels)
    IN  SelectSeq(frame, keep)

\* lines 362-366: the boolean mask over df
apply_filters(frame, subs, types, labels) ==
    LET keep(r) == /\ r.subreddit \in subs
                   /\ r.type \in types
                   /\ isin(r.transformer_label, labels)
    IN  SelectSeq(frame, keep)

\* groupby(['subreddit', 'transformer_label']).size()
group_sizes(frame) ==
    {[subreddit |-> frame[i].subreddit,
      transformer_label |-> frame[i].transformer_label,
      Count |-> Cardinality({j \in 1..Len(frame) :
                    /\ frame[j].subreddit = frame[i].subreddit
                    /\ frame[j].transformer_label = frame[i].transformer_label})]
        : i \in 1..Len(frame)}

\* filtered_df.head(10)
FeedSize == 10
head(frame, n) == SubSeq(frame, 1, IF Len(frame) < n THEN Len(frame) ELSE n)

ContentTypes == {"Post", "Comment"}

\* lines 336-425: widgets, filtered_df, filtered chart, feed
DataExplorer(subs, types, chk_pos, chk_neu, chk_neg) ==
    /\ pc = "explorer"
    /\ subs \subseteq Column(df, "subreddit")
    /\ types \subseteq ContentTypes
    /\ LET sentiments_to_show == build_sentiments(chk_pos, chk_neu, chk_neg)
           filtered_df == apply_filters(df, subs, types, sentiments_to_show)
       IN  view' = [shown |-> TRUE,
                    all_options |-> Column(df, "subreddit"),
                    selected_subs |-> subs,
                    selected_types |-> types,
                    sentiments_to_show |-> sentiments_to_show,
                    filtered_df |-> filtered_df,
                    charted |-> ~empty(filtered_df),
                    breakdown |-> IF ~empty(filtered_df)
                                  THEN group_sizes(filtered_df) ELSE {},
                    feed |-> IF empty(filtered_df) THEN <<>>
                             ELSE head(filtered_df, FeedSize)]
    /\ pc' = "done"
    /\ UNCHANGED <<clock, mongo_cache, clients_created, ping_ok, data_cache, invalidated,
                   refresh_count, last_manual_refresh, button,
                   conn, call, df, load_time, kpi, bars>>

\* the widgets as a fresh session shows them: everything selected
ExplorerDefaults ==
    DataExplorer(Column(df, "subreddit"), ContentTypes, TRUE, TRUE, TRUE)

\* the operator chooses among the offered options
ExplorerChoice ==
    \E subs \in SUBSET Column(df, "subreddit"), types \in SUBSET ContentTypes,
       chk_pos \in BOOLEAN, chk_neu \in BOOLEAN, chk_neg \in BOOLEAN :
          DataExplorer(subs, types, chk_pos, chk_neu, chk_neg)

\* the run is over (end of script, st.stop() or an uncaught exception): its
\* globals are gone, the caches and the session state stay
ScriptEnd ==
    /\ pc \in {"done", "stopped", "failed"}
    /\ pc' = "idle"
    /\ conn' = NoConn
    /\ call' = NoCall
    /\ df' = <<>>
    /\ load_time' = None
    /\ kpi' = NoKpi
    /\ bars' = NoBars
    /\ view' = NoView
    /\ UNCHANGED <<clock, mongo_cache, clients_created, ping_ok, data_cache, invalidated,
                   refresh_count, last_manual_refresh, button>>

\* the dashboard with an operator who refreshes and waits
Next ==
    \/ Tick
    \/ \E pressed \in BOOLEAN : RunStart(pressed)
    \/ ManualRefresh
    \/ SidebarStatus
    \/ LoadData
    \/ EmptyGuard
    \/ ExecutiveSummary
    \/ ExplorerDefaults
    \/ ScriptEnd

Spec == Init /\ [][Next]_vars

\* the dashboard with an operator who works the explorer's filters
NextView ==
    \/ RunStart(FALSE)
    \/ SidebarStatus
    \/ LoadData
    \/ EmptyGuard
    \/ ExecutiveSummary
    \/ ExplorerChoice
    \/ ScriptEnd

SpecView == Init /\ [][NextView]_vars

(***************************************************************************)
(* Properties.                                                             *)
(***************************************************************************)
Range(q) == {q[i] : i \in 1..Len(q)}

\* the slot as the call found it: nothing stored, stored for the whole
\* freshness window or longer, or cleared since it was filled
Stale == ~call.had \/ call.age >= TTL \/ call.invalidated

\* a call that was served from the slot: no query, the stored pair, slot untouched
ServedFromSlot ==
    /\ call.queries = 0
    /\ call.kind = "return"
    /\ data_cache.full
    /\ data_cache.stored_at = clock - call.age
    /\ df = data_cache.df
    /\ load_time = data_cache.load_time

\* C1 as stated: a load_data call issues the two store queries exactly when
\* the slot was empty, older than the window or invalidated; every other call
\* issues no query and returns the cached pair.
C1_TwoQueriesIffStale ==
    call.kind # "none" =>
        /\ (call.queries = 2) <=> Stale
        /\ ~Stale => ServedFromSlot

C1_Inv ==
    call.kind # "none" =>
        /\ call.ran <=> Stale
        /\ (call.queries = 2) <=>
               (Stale /\ call.error \notin {"ConnectionError", "posts query failed"})
        /\ (call.queries = 1) <=> (Stale /\ call.error = "posts query failed")
        /\ (call.queries = 0) <=> (~Stale \/ call.error = "ConnectionError")
        /\ ~Stale => ServedFromSlot

C1_Step ==
    (call.kind = "none" /\ call'.kind # "none" /\ ~call'.ran) =>
        /\ data_cache' = data_cache
        /\ df' = data_cache.df
        /\ load_time' = data_cache.load_time

\* C1, amended: a load_data call runs its body exactly when the slot was
\* empty, older than the window or invalidated; the body issues both queries
\* unless the connection fails (no query) or the posts query fails (one
\* query); every other call issues no query and returns the cached pair,
\* leaving the slot as it was.
C1_BodyRunsIffStale == []C1_Inv /\ [][C1_Step]_vars

\* C1 witness: an entry older than the window made the call query again
C1_Witness == call.had /\ call.age >= TTL /\ call.queries = 2 /\ call.kind = "return"

BothReturnedNothing ==
    /\ call.ran
    /\ call.queries = 2
    /\ call.error # "comments query failed"
    /\ call.posts = <<>>
    /\ call.comments = <<>>

\* C2: when both queries return no rows, load_data returns an empty frame and
\* a null load time without raising, and the run stops at the empty-dataset
\* guard: no error, no summary, no explorer.
C2_EmptyIsNoData ==
    BothReturnedNothing =>
        /\ call.kind = "return"
        /\ call.error = None
        /\ df = <<>>
        /\ load_time = None
        /\ pc \in {"guard", "stopped"}
        /\ ~kpi.shown /\ ~bars.shown /\ ~view.shown

\* C2 witness: both collections were empty and the run stopped at the warning
C2_Witness == BothReturnedNothing /\ pc = "stopped"

QueryFailed == call.error \in {"posts query failed", "comments query failed"}

C3_Inv ==
    QueryFailed =>
        /\ call.kind = "raise"
        /\ pc = "failed"
        /\ df = <<>> /\ load_time = None
        /\ ~kpi.shown /\ ~bars.shown /\ ~view.shown
        /\ ~data_cache.full
        /\ mongo_cache # 0

C3_Step ==
    /\ (~data_cache.full /\ data_cache'.full) =>
           (call'.queries = 2 /\ call'.kind = "return")
    /\ (pc = "load" /\ pc' # "load" /\ ~data_cache.full /\ mongo_cache # 0) =>
           (call'.ran /\ call'.queries >= 1)

\* C3: a failure of the posts query or of the comments query leaves load_data
\* as an error: the run gets no frame (none built from the collection that
\* did answer), the slot stays empty, and a slot is only ever filled by a call
\* whose two queries both answered, so the next call queries the store again.
C3_QueryFailureAborts == []C3_Inv /\ [][C3_Step]_vars

\* C3 witness: the posts query answered with rows, the comments query failed
C3_Witness ==
    call.error = "comments query failed" /\ call.posts # <<>> /\ pc = "failed"

\* C4: the filtered frame holds exactly the rows of df whose subreddit, type
\* and label are each among the selected ones, in df's order; an empty
\* selection in any control gives an empty frame.
C4_FilterExact ==
    view.shown =>
        LET f == view.filtered_df
            labels == Range(view.sentiments_to_show)
            selected(r) == /\ r.subreddit \in view.selected_subs
                           /\ r.type \in view.selected_types
                           /\ r.transformer_label \in labels
        IN  /\ \A i \in 1..Len(df) : (df[i] \in Range(f)) <=> selected(df[i])
            /\ \A j \in 1..Len(f) : f[j] \in Range(df)
            /\ \A i, j \in 1..Len(df) : i < j => df[i].index < df[j].index
            /\ \A i, j \in 1..Len(f) : i < j => f[i].index < f[j].index
            /\ (\/ view.selected_subs = {}
                \/ view.selected_types = {}
                \/ view.sentiments_to_show = <<>>) => f = <<>>

\* C4 witness: a selection that keeps some rows of df and drops others
C4_Witness ==
    /\ view.shown
    /\ Len(view.filtered_df) >= 1
    /\ Len(view.filtered_df) < Len(df)

EverythingSelected ==
    /\ view.shown
    /\ view.selected_subs = Column(df, "subreddit")
    /\ view.selected_types = ContentTypes
    /\ Range(view.sentiments_to_show) = {"positive", "neutral", "negative"}

\* C5: with every subreddit of df, both content types and all three labels
\* selected, the filtered frame is df itself.
C5_IdentityFilter == EverythingSelected => view.filtered_df = df

\* a timestamp that parses to an instant
ValidInstant(v) == v \notin {Absent, "garbage"}

RowsFetched ==
    /\ call.ran
    /\ call.queries = 2
    /\ call.error # "comments query failed"
    /\ call.posts # <<>> \/ call.comments # <<>>

\* the fetched documents carry every other column the body reads
OtherColumnsPresent ==
    LET frame == concat(call.posts, call.comments)
    IN  /\ HasColumn(frame, "vader_score")
        /\ HasColumn(frame, "transformer_label")
        /\ HasColumn(frame, "subreddit")
        /\ call.comments # <<>> => HasBody(call.comments)

\* C6: whatever mix of rows was fetched, load_data returns exactly the rows
\* whose timestamp parses (those with a missing or unparsable timestamp are
\* left out) and never fails because of the rows it leaves out.
C6_ValidTimesKept ==
    (RowsFetched /\ OtherColumnsPresent) =>
        LET frame == concat(call.posts, call.comments)
        IN  /\ call.kind = "return"
            /\ {df[i].index : i \in 1..Len(df)} =
                   {frame[k].index : k \in {n \in 1..Len(frame) :
                                               ValidInstant(frame[n].timestamp)}}

\* C7: every row of a returned, non-empty frame has a subreddit and a label
\* that are neither missing nor empty; a missing subreddit reads "unknown", a
\* missing label "neutral", and labels are lower-case.
C7_NoEmptyFields ==
    (call.kind = "return" /\ df # <<>>) =>
        \A i \in 1..Len(df) :
            /\ df[i].subreddit \notin {Absent, ""}
            /\ df[i].transformer_label \notin {Absent, "", "POSITIVE"}

\* C8: the three percentages of display_sentiment_bars add up to 100, that is
\* the positive, neutral and negative counts add up to the number of rows.
C8_BarsSumTo100 ==
    bars.shown => bars.positive + bars.neutral + bars.negative = 100 * bars.total

C9_Inv ==
    /\ conn.kind = "return" =>
           (conn.client # 0 /\ conn.client \in ping_ok /\ mongo_cache = conn.client)
    /\ mongo_cache # 0 => mongo_cache \in ping_ok
    /\ conn.kind = "raise" => mongo_cache = 0
    /\ call.queries > 0 => (call.client # 0 /\ call.client \in ping_ok)

C9_Step ==
    mongo_cache # 0 =>
        /\ mongo_cache' = mongo_cache
        /\ clients_created' = clients_created
        /\ conn' \in {NoConn, [kind |-> "return", client |-> mongo_cache]}

\* C9: get_mongo_client returns and memoizes only a client whose ping
\* succeeded; once a client is memoized every later call returns it and
\* constructs no other; a failed construction or ping raises and memoizes
\* nothing; load_data queries only on a pinged client.
C9_OnlyPingedClient == []C9_Inv /\ [][C9_Step]_vars

\* C9 witness: a ping failed, a later call connected, and load_data queried
\* on the memoized client
C9_Witness ==
    /\ mongo_cache # 0
    /\ clients_created > 1
    /\ call.queries = 2
    /\ call.client = mongo_cache

\* C10: the KPI row is computed only over a non-empty frame; a returned empty
\* frame, from empty collections or from dropping every row, stops the run
\* at the warning; the filtered chart is drawn only over a non-empty
\* filtered frame.
C10_AggregatesNeedRows ==
    /\ kpi.shown =>
           /\ df # <<>>
           /\ kpi.total_docs > 0
           /\ kpi.avg_vader[2] > 0
           /\ kpi.dominant_sent # "IndexError"
    /\ (call.kind = "return" /\ df = <<>>) =>
           /\ pc \in {"guard", "stopped"}
           /\ ~kpi.shown /\ ~bars.shown /\ ~view.shown
    /\ view.shown =>
           /\ view.charted <=> view.filtered_df # <<>>
           /\ view.charted => view.breakdown # {}
           /\ ~view.charted => (view.breakdown = {} /\ view.feed = <<>>)

\* C10 witness: rows were fetched, every one was dropped for its timestamp,
\* and the run stopped at the warning
C10_Witness ==
    /\ call.kind = "return"
    /\ call.posts # <<>>
    /\ df = <<>>
    /\ load_time # None
    /\ pc = "stopped"

====
